---- MODULE Spec2Model ----
(***************************************************************************)
(* Synthetic transactional-dataset generator (LLM_DM/src/generator):       *)
(* DistributionEngine, PatternInjector and DataGenerator, together with    *)
(* the process-wide numpy random stream they all draw from.                 *)
(*                                                                         *)
(* Numbers.  target_support is tsN / SuppDen, noise_ratio is nrN /         *)
(* NoiseDen, density is dN / DensDen and a uniform draw is u / UDen, so    *)
(* every comparison and floor of the code is computed exactly on integers. *)
(* A dataset is a function Rows -> (Cols -> cell), rows and columns        *)
(* numbered from 0 as in the code.  An optional value (seed,               *)
(* avg_transaction_len, self.data) is a sequence of length 0 (None) or 1.  *)
(*                                                                         *)
(* Random stream.  np.random is a deterministic generator: its state       *)
(* decides every later draw, and np.random.seed(S) puts it in a state that *)
(* depends on S alone.  The state is modelled as a natural number below    *)
(* RngMod read as a mixed-radix numeral: a draw with c possible outcomes   *)
(* returns state % c and leaves state \div c.  The state the process       *)
(* starts in (seeded by the OS) is arbitrary, so every sequence of         *)
(* outcomes whose code is below RngMod occurs in some behaviour.           *)
(***************************************************************************)
EXTENDS Integers, Sequences, FiniteSets, TLC

VARIABLES
    config,     \* DataGenerator.config (dataset_meta, distribution_config, pattern_injection)
    data,       \* DataGenerator.data: <<>> (None) or <<matrix>>
    rng,        \* state of the process-wide np.random stream
    pc,         \* position of the generate call in progress: "idle", "base", "inject"
    probs,      \* generate's local item_probs (unnormalised weights per column)
    work,       \* _generate_transactions' local data
    i,          \* _generate_transactions' loop index (row)
    k,          \* inject_multiple_patterns' loop position (1-based index in the list)
    ret,        \* outcome of the last completed call
    hist,       \* observation of the generator's calls (not program state)
    injT,       \* standalone PatternInjector.num_transactions
    injI,       \* standalone PatternInjector.num_items
    mat         \* the matrix the caller hands to the standalone PatternInjector

vars == <<config, data, rng, pc, probs, work, i, k, ret, hist, injT, injI, mat>>

genVars == <<config, data, pc, probs, work, i, k, hist>>
injVars == <<injT, injI, mat>>

-----------------------------------------------------------------------------
(* Bounds of the model and units of the numbers *)

MaxTrans == 2       \* num_transactions ranges over 1..MaxTrans
MaxItems == 3       \* num_items
RngMod   == 128     \* number of states of the random stream
PoissonMax == 4     \* largest value a Poisson draw returns in the model
SuppDen  == 4       \* target_support = tsN / SuppDen
NoiseDen == 5       \* noise_ratio = nrN / NoiseDen
DensDen  == 2       \* density = dN / DensDen
UDen     == 2       \* np.random.random() returns u / UDen, u \in 0..UDen-1
ParamDen == 1000    \* mean, std and scale of the distributions are n / ParamDen
MantBits == 10      \* bits of the significand of a float (53 in a Python float)

None == << >>
Some(x) == << x >>

Rows(T) == 0 .. (T - 1)
Cols(I) == 0 .. (I - 1)

\* np.zeros((T, I))
Zeros(T, I) == [r \in Rows(T) |-> [c \in Cols(I) |-> 0]]

NumRows(d) == Cardinality(DOMAIN d)

RECURSIVE Pow(_, _)
Pow(b, e) == IF e = 0 THEN 1 ELSE b * Pow(b, e - 1)

-----------------------------------------------------------------------------
(* The random stream (numpy.random, legacy global RandomState) *)

\* np.random.seed(S): the state depends on S alone
SeedState(S) == S % RngMod

\* one primitive draw among c outcomes
Digit(s, c) == s % c
After(s, c) == s \div c

\* np.random.random(): a float of [0.0, 1.0), here u / UDen with u \in 0..UDen-1
RandomSample(s) == [val |-> Digit(s, UDen), rng |-> After(s, UDen)]

\* np.random.poisson(lam), lam > 0: any natural number
Poisson(s) == [val |-> Digit(s, PoissonMax + 1), rng |-> After(s, PoissonMax + 1)]

\* np.random.permutation(n): shuffle of arange(n), one draw per position from the last
\* down to the second
RECURSIVE Shuffle(_, _, _)
Shuffle(x, j, s) ==
    IF j < 2 THEN [val |-> x, rng |-> s]
    ELSE LET p == 1 + Digit(s, j)
             y == [x EXCEPT ![j] = x[p], ![p] = x[j]]
         IN  Shuffle(y, j - 1, After(s, j))

Permutation(n, s) == Shuffle([j \in 1..n |-> j - 1], n, s)

\* np.random.choice(n, size=size, replace=False): permutation(n)[:size]
ChoiceUniform(n, size, s) ==
    LET p == Permutation(n, s)
    IN  [val |-> SubSeq(p.val, 1, size), rng |-> p.rng]

\* np.random.choice(n, size=size, replace=False, p=w/sum(w)): size distinct indices of
\* non-zero probability; ValueError when fewer than size entries of p are non-zero.
\* The indices are used as a set (data[i, selected_items] = 1).
RECURSIVE Mask(_)
Mask(S) ==
    IF S = {} THEN 0
    ELSE LET c == CHOOSE x \in S : TRUE
         IN  Pow(2, c) + Mask(S \ {c})

\* choice with one slip: replace=True, here the outcome in which every one of the
\* size indices drawn is the same
ChoiceWeightedRepeating(w, size, s) ==
    LET supp == {c \in DOMAIN w : w[c] > 0}
        n    == Cardinality(supp)
        d    == Digit(s, n)
    IN  IF n < size
        THEN [raised |-> TRUE, val |-> {}, rng |-> s]
        ELSE [raised |-> FALSE,
              val |-> {CHOOSE c \in supp : Cardinality({c2 \in supp : c2 < c}) = d},
              rng |-> After(s, n)]

ChoiceWeighted(w, size, s) ==
    LET supp  == {c \in DOMAIN w : w[c] > 0}
        cands == {S \in SUBSET supp : Cardinality(S) = size}
        n     == Cardinality(cands)
        d     == Digit(s, n)
    IN  IF n = 0
        THEN [raised |-> TRUE, val |-> {}, rng |-> s]
        ELSE [raised |-> FALSE,
              val |-> CHOOSE S \in cands :
                        Cardinality({S2 \in cands : Mask(S2) < Mask(S)}) = d,
              rng |-> After(s, n)]

-----------------------------------------------------------------------------
(* DistributionEngine (distributions.py) *)

RECURSIVE Fact(_)
Fact(n) == IF n <= 1 THEN 1 ELSE n * Fact(n - 1)

\* probs = np.ones(num_items); the division by probs.sum() is left implicit:
\* item c has probability w[c] / sum(w)
RandomDistribution(I) == [c \in Cols(I) |-> 1]

\* probs = 1.0 / np.power(ranks, alpha), ranks = 1..num_items, scaled by (I!)^alpha
\* when alpha >= 0; for alpha < 0 it is np.power(ranks, -alpha)
ZipfDistribution(I, alpha) ==
    [c \in Cols(I) |->
        IF alpha >= 0 THEN Pow(Fact(I) \div (c + 1), alpha) ELSE Pow(c + 1, 0 - alpha)]

\* probs.sum() over the num_items entries
RECURSIVE SumTo(_, _)
SumTo(w, n) == IF n = 0 THEN 0 ELSE SumTo(w, n - 1) + w[n - 1]

\* 0.0 / 0.0
NaN == [num |-> 0, den |-> 0]

\* probs / probs.sum(): entry c is the fraction w[c] / probs.sum(); when the sum is
\* 0.0 every entry is 0.0 / 0.0, that is NaN
Normalised(w) ==
    LET total == SumTo(w, Cardinality(DOMAIN w))
    IN  [c \in DOMAIN w |-> IF total = 0 THEN NaN ELSE [num |-> w[c], den |-> total]]

\* exp(-x) is 0.0 in double precision for every x above ExpUnderflow (745.13...)
ExpUnderflow == 745

\* a distribution parameter p is given in units of 1 / ParamDen
DefaultParams == [alpha |-> 1, mean |-> ParamDen \div 2, std |-> ParamDen \div 5,
                  scale |-> ParamDen]

Abs(x) == IF x < 0 THEN 0 - x ELSE x

\* number of intervals of np.linspace(a, b, num_items)
Steps(I) == IF I > 1 THEN I - 1 ELSE 1

\* probs = norm.pdf(np.linspace(0, 1, num_items), loc=mean, scale=std), std > 0.
\* The density at position c / (I - 1) is exp(-z^2 / 2) / (std * sqrt(2 pi)) with
\* z = (position - mean) / std = num / den; it is 0.0 when z^2 / 2 is above
\* ExpUnderflow.  The weights keep the zeros and the order of the densities, not
\* their ratios.
NormalDistribution(I, mean, std) ==
    [c \in Cols(I) |->
        LET num == Abs(c * ParamDen - mean * Steps(I))
            den == std * Steps(I)
            top == 2 * ExpUnderflow * den * den
        IN  IF num * num > top THEN 0 ELSE top - num * num + 1]

\* probs = expon.pdf(np.linspace(0, 5, num_items), scale=scale), scale > 0.
\* The density at x = 5 c / (I - 1) is exp(-x / scale) / scale with
\* x / scale = num / den; it is 0.0 when x / scale is above ExpUnderflow.  The
\* weights keep the zeros and the order of the densities, not their ratios.
ExponentialDistribution(I, scale) ==
    [c \in Cols(I) |->
        LET num == 5 * c * ParamDen
            den == scale * Steps(I)
        IN  IF num > ExpUnderflow * den THEN 0 ELSE ExpUnderflow * den - num + 1]

\* the dispatch with one slip: a name that is not recognised falls back to "random"
GenerateItemFrequenciesDefaultRandom(I, method, params) ==
    IF method = "zipf"
    THEN [raised |-> FALSE, w |-> ZipfDistribution(I, params.alpha)]
    ELSE IF method = "normal"
    THEN [raised |-> FALSE, w |-> NormalDistribution(I, params.mean, params.std)]
    ELSE IF method = "exponential"
    THEN [raised |-> FALSE, w |-> ExponentialDistribution(I, params.scale)]
    ELSE [raised |-> FALSE, w |-> RandomDistribution(I)]

\* generate_item_frequencies: the dispatch on the method name; ValueError for any
\* other name
GenerateItemFrequencies(I, method, params) ==
    IF method = "random"
    THEN [raised |-> FALSE, w |-> RandomDistribution(I)]
    ELSE IF method = "zipf"
    THEN [raised |-> FALSE, w |-> ZipfDistribution(I, params.alpha)]
    ELSE IF method = "normal"
    THEN [raised |-> FALSE, w |-> NormalDistribution(I, params.mean, params.std)]
    ELSE IF method = "exponential"
    THEN [raised |-> FALSE, w |-> ExponentialDistribution(I, params.scale)]
    ELSE [raised |-> TRUE, w |-> << >>]

-----------------------------------------------------------------------------
(* PatternInjector (injector.py) *)

\* the validations with one slip: target_support = 1.0 rejected
InjectErrorStrictUpper(I, items, tsN, nrN) ==
    IF items = << >>
    THEN "pattern_items cannot be empty"
    ELSE IF \E j \in 1..Len(items) : items[j] < 0 \/ items[j] >= I
    THEN "pattern_items must be in range"
    ELSE IF ~(0 < tsN /\ tsN < SuppDen)
    THEN "target_support must be between 0 and 1"
    ELSE IF ~(0 <= nrN /\ nrN < NoiseDen)
    THEN "noise_ratio must be between 0 and 1"
    ELSE ""

\* the four validations of inject_pattern, in the order of the code; "" when all pass
InjectError(I, items, tsN, nrN) ==
    IF items = << >>
    THEN "pattern_items cannot be empty"
    ELSE IF \E j \in 1..Len(items) : items[j] < 0 \/ items[j] >= I
    THEN "pattern_items must be in range"
    ELSE IF ~(0 < tsN /\ tsN <= SuppDen)
    THEN "target_support must be between 0 and 1"
    ELSE IF ~(0 <= nrN /\ nrN < NoiseDen)
    THEN "noise_ratio must be between 0 and 1"
    ELSE ""

\* num_injections with one slip each: never fewer than one injection; rounding up
NumInjectionsAtLeastOne(T, tsN, nrN) ==
    LET num == IF nrN > 0 THEN tsN * 10 * NoiseDen ELSE tsN
        den == IF nrN > 0 THEN SuppDen * (10 * NoiseDen - 7 * nrN) ELSE SuppDen
    IN  IF num >= den THEN T
        ELSE IF (T * num) \div den < 1 THEN 1 ELSE (T * num) \div den

NumInjectionsRoundUp(T, tsN, nrN) ==
    IF nrN > 0
    THEN LET num == tsN * 10 * NoiseDen
             den == SuppDen * (10 * NoiseDen - 7 * nrN)
         IN  IF num >= den THEN T ELSE (T * num + den - 1) \div den
    ELSE (T * tsN) \div SuppDen

\* Python floats (IEEE 754 binary floating point, round to nearest, ties to even),
\* with a significand of MantBits bits: [m, e] is m * 2^e, m = 0 or
\* 2^(MantBits-1) <= m < 2^MantBits.  Only values >= 0 occur.
FZero == [m |-> 0, e |-> 0]

\* 2^MantBits and 2^(MantBits-1), the bounds of a significand
SigTop == Pow(2, MantBits)
SigLow == Pow(2, MantBits - 1)

FOne == [m |-> SigLow, e |-> 0 - (MantBits - 1)]

\* the float nearest to (n / d) * 2^e
RECURSIVE Round(_, _, _)
Round(n, d, e) ==
    IF n <= 0 THEN FZero
    ELSE IF n >= d * SigTop THEN Round(n, 2 * d, e + 1)
    ELSE IF n < d * SigLow THEN Round(2 * n, d, e - 1)
    ELSE LET q  == n \div d
             r  == n % d
             m  == IF 2 * r > d \/ (2 * r = d /\ q % 2 = 1) THEN q + 1 ELSE q
         IN  IF m = SigTop
             THEN [m |-> SigLow, e |-> e + 1]
             ELSE [m |-> m, e |-> e]

\* the float a decimal literal num/den denotes
ToFloat(num, den) == Round(num, den, 0)

\* a * b,  T * a,  1.0 / a,  1 - a (0 <= a <= 1),  min(a, 1.0),  int(a)
FMul(a, b)    == Round(a.m * b.m, 1, a.e + b.e)
FScale(T, a)  == Round(T * a.m, 1, a.e)
FRecip(a)     == Round(1, a.m, 0 - a.e)
FOneMinus(a)  == IF a.m = 0 THEN FOne ELSE Round(Pow(2, 0 - a.e) - a.m, 1, a.e)
FMinOne(a)    == IF a.m > 0 /\ a.e >= 0 - (MantBits - 1) THEN FOne ELSE a
Trunc(a)      == IF a.e >= 0 THEN a.m * Pow(2, a.e) ELSE a.m \div Pow(2, 0 - a.e)

\* the literal 0.7 of line 73
CompensationWeight == ToFloat(7, 10)

\* num_injections (lines 70-77) for float arguments.  With noise:
\* int(T * min(ts * (1.0 / (1 - nr * 0.7)), 1.0)); without: int(T * ts)
NumInjectionsOf(T, ts, nr) ==
    IF nr.m > 0
    THEN LET compensation_factor == FRecip(FOneMinus(FMul(nr, CompensationWeight)))
             adjusted_support    == FMul(ts, compensation_factor)
         IN  Trunc(FScale(T, FMinOne(adjusted_support)))
    ELSE Trunc(FScale(T, ts))

\* num_injections for every valid target_support = tsN / SuppDen and noise_ratio =
\* nrN / NoiseDen
NumInjectionsTable ==
    [T \in 1..MaxTrans, tsN \in 1..SuppDen, nrN \in 0..(NoiseDen - 1) |->
        NumInjectionsOf(T, ToFloat(tsN, SuppDen), ToFloat(nrN, NoiseDen))]

NumInjections(T, tsN, nrN) == NumInjectionsTable[T, tsN, nrN]

\* np.random.random() > noise_ratio
Keep(u, nrN) == u * NoiseDen > nrN * UDen

\* the assignment with one slip: data[trans_idx, item] ^= 1
SetCellToggle(d, row, col) == [d EXCEPT ![row][col] = 1 - @]

\* the assignment with one slip: data[trans_idx, item] += 1
SetCellAdd(d, row, col) == [d EXCEPT ![row][col] = @ + 1]

\* data[trans_idx, item] = 1
SetCell(d, row, col) == [d EXCEPT ![row][col] = 1]

\* the loop with one slip: an item that is not kept is cleared,
\* data[trans_idx, item] = 1 if keep else 0
RECURSIVE InjectItemsClearing(_, _, _, _, _, _)
InjectItemsClearing(d, row, items, j, nrN, s) ==
    IF j > Len(items) THEN [data |-> d, rng |-> s]
    ELSE LET u == RandomSample(s)
             d1 == [d EXCEPT ![row][items[j]] = IF Keep(u.val, nrN) THEN 1 ELSE 0]
         IN  InjectItemsClearing(d1, row, items, j + 1, nrN, u.rng)

\* for item in pattern_items: one draw per item, in list order (from position j)
RECURSIVE InjectItems(_, _, _, _, _, _)
InjectItems(d, row, items, j, nrN, s) ==
    IF j > Len(items) THEN [data |-> d, rng |-> s]
    ELSE LET u == RandomSample(s)
             d1 == IF Keep(u.val, nrN) THEN SetCell(d, row, items[j]) ELSE d
         IN  InjectItems(d1, row, items, j + 1, nrN, u.rng)

\* the loop with one slip: one draw per selected row decides for all its items
RECURSIVE InjectRowsJoint(_, _, _, _, _, _)
InjectRowsJoint(d, rows, r, items, nrN, s) ==
    IF r > Len(rows) THEN [data |-> d, rng |-> s]
    ELSE LET u  == RandomSample(s)
             d1 == IF Keep(u.val, nrN)
                   THEN [d EXCEPT ![rows[r]] =
                           [c \in DOMAIN @ |->
                               IF \E j \in 1..Len(items) : items[j] = c THEN 1 ELSE @[c]]]
                   ELSE d
         IN  InjectRowsJoint(d1, rows, r + 1, items, nrN, u.rng)

\* the loop with one slip: the writes of the first selected row are dropped
RECURSIVE InjectRowsSkipFirst(_, _, _, _, _, _)
InjectRowsSkipFirst(d, rows, r, items, nrN, s) ==
    IF r > Len(rows) THEN [data |-> d, rng |-> s]
    ELSE LET one == InjectItems(d, rows[r], items, 1, nrN, s)
         IN  InjectRowsSkipFirst(IF r = 1 THEN d ELSE one.data, rows, r + 1, items, nrN,
                                 one.rng)

\* for trans_idx in transaction_indices: in the order choice returned them
RECURSIVE InjectRows(_, _, _, _, _, _)
InjectRows(d, rows, r, items, nrN, s) ==
    IF r > Len(rows) THEN [data |-> d, rng |-> s]
    ELSE LET one == InjectItems(d, rows[r], items, 1, nrN, s)
         IN  InjectRows(one.data, rows, r + 1, items, nrN, one.rng)

\* inject_pattern with one slip: the rows are selected before the test of
\* num_injections == 0
InjectPatternChoiceFirst(d, T, I, items, tsN, nrN, s) ==
    LET err == InjectError(I, items, tsN, nrN)
        n   == NumInjections(T, tsN, nrN)
        ch  == ChoiceUniform(T, n, s)
        res == InjectRows(d, ch.val, 1, items, nrN, ch.rng)
    IN  IF err # ""
        THEN [raised |-> TRUE, msg |-> err, data |-> d, rng |-> s, rows |-> << >>]
        ELSE IF n = 0
        THEN [raised |-> FALSE, msg |-> "", data |-> d, rng |-> ch.rng, rows |-> << >>]
        ELSE [raised |-> FALSE, msg |-> "", data |-> res.data, rng |-> res.rng,
              rows |-> ch.val]

\* PatternInjector.inject_pattern on an injector built for T transactions and I items
InjectPattern(d, T, I, items, tsN, nrN, s) ==
    LET err == InjectError(I, items, tsN, nrN)
        n   == NumInjections(T, tsN, nrN)
    IN  IF err # ""
        THEN [raised |-> TRUE, msg |-> err, data |-> d, rng |-> s, rows |-> << >>]
        ELSE IF n = 0
        THEN [raised |-> FALSE, msg |-> "", data |-> d, rng |-> s, rows |-> << >>]
        ELSE LET ch  == ChoiceUniform(T, n, s)
                 res == InjectRows(d, ch.val, 1, items, nrN, ch.rng)
             IN  [raised |-> FALSE, msg |-> "", data |-> res.data, rng |-> res.rng,
                  rows |-> ch.val]

\* data[:, item] with Python's index rules: a negative index counts from the end
ColIndex(I, item) == IF item < 0 THEN I + item ELSE item

\* verify_pattern with one slip: the columns are joined with |= instead of &=
VerifyPatternAny(d, I, items) ==
    IF items = << >>
    THEN [raised |-> FALSE, num |-> 0, den |-> 1]
    ELSE IF \E j \in 1..Len(items) : items[j] >= I \/ items[j] < 0 - I
    THEN [raised |-> TRUE, num |-> 0, den |-> 1]
    ELSE [raised |-> FALSE,
          num |-> Cardinality({r \in DOMAIN d :
                     \E j \in 1..Len(items) : d[r][ColIndex(I, items[j])] = 1}),
          den |-> NumRows(d)]

\* PatternInjector.verify_pattern: a fraction num / den (IndexError for a column
\* outside the matrix)
VerifyPattern(d, I, items) ==
    IF items = << >>
    THEN [raised |-> FALSE, num |-> 0, den |-> 1]
    ELSE IF \E j \in 1..Len(items) : items[j] >= I \/ items[j] < 0 - I
    THEN [raised |-> TRUE, num |-> 0, den |-> 1]
    ELSE [raised |-> FALSE,
          num |-> Cardinality({r \in DOMAIN d :
                     \A j \in 1..Len(items) : d[r][ColIndex(I, items[j])] = 1}),
          den |-> NumRows(d)]

-----------------------------------------------------------------------------
(* Inputs *)

\* item lists a caller passes: two valid ones, and the empty list, a list with the
\* index one past the last column, a list with a negative index
GoodItemLists == { <<1>>, <<0, 1, 2>> }
BadItemLists  == { << >>, <<2, MaxItems>>, <<0 - 1, 0>> }
ItemLists     == GoodItemLists \cup BadItemLists

\* target_support numerators: 1, 2 and SuppDen (1.0) are in (0, 1]; 0 and SuppDen+1 are not
GoodSupportNums == {1, 2, SuppDen}
BadSupportNums  == {0, SuppDen + 1}
SupportNums     == GoodSupportNums \cup BadSupportNums

\* noise_ratio numerators: 0 and 1 are in [0, 1); -1 and NoiseDen (1.0) are not
GoodNoiseNums == {0, 1}
BadNoiseNums  == {0 - 1, NoiseDen}
NoiseNums     == GoodNoiseNums \cup BadNoiseNums

\* the argument triples of the inject_pattern calls: every triple of accepted values,
\* and every triple in which each argument is either a rejected value or that of the
\* tests' call (three items, noiseless)
InjectArgs ==
    (GoodItemLists \X GoodSupportNums \X GoodNoiseNums)
    \cup ((BadItemLists \cup {<<0, 1, 2>>}) \X (BadSupportNums \cup {2})
            \X (BadNoiseNums \cup {0}))

\* seeds a caller passes to generate
Seeds == {42, 127}

\* a pattern spec of pattern_injection
Pat(items, tsN, nrN) == [items |-> items, target_support |-> tsN, noise_ratio |-> nrN]

\* pattern_injection lists: none, one pattern, two overlapping patterns (the first
\* noisy), a valid pattern followed by one with an item past the last column, and a
\* single pattern with no item
PatternLists ==
    { << >>,
      << Pat(<<0, 1, 2>>, 2, 0) >>,
      << Pat(<<1, 2>>, SuppDen, 1), Pat(<<0, 1>>, 2, 0) >>,
      << Pat(<<0, 1, 2>>, 2, 0), Pat(<<2, MaxItems>>, 2, 0) >>,
      << Pat(<< >>, 2, 0) >> }

\* distribution_config["params"]: the defaults, and a normal and an exponential
\* density so narrow (std = 0.01, scale = 0.001) that they vanish at all positions but
\* one
NarrowParams ==
    [DefaultParams EXCEPT !.std = ParamDen \div 100, !.scale = ParamDen \div 1000]

\* configurations handed to DataGenerator(config): density 0.5 with every
\* avg_transaction_len, method and pattern list, and density 1.0 with no and with a
\* zero avg_transaction_len
Configs ==
    [num_transactions : 1 .. MaxTrans,
     num_items : {MaxItems},
     density : {1},
     avg_transaction_len : {None, Some(0), Some(2)},
     method : {"random", "zipf", "bogus"},
     params : {DefaultParams},
     patterns : PatternLists]
    \cup
    [num_transactions : 1 .. MaxTrans,
     num_items : {MaxItems},
     density : {1},
     avg_transaction_len : {None, Some(2)},
     method : {"normal", "exponential"},
     params : {DefaultParams, NarrowParams},
     patterns : {<< >>, << Pat(<<0, 1, 2>>, 2, 0) >>}]
    \cup
    [num_transactions : 1 .. MaxTrans,
     num_items : {MaxItems},
     density : {DensDen},
     avg_transaction_len : {None, Some(0)},
     method : {"zipf"},
     params : {DefaultParams},
     patterns : {<< >>}]

NoCall == [op |-> "none", status |-> "none"]

NoMemo == [S \in Seeds |-> None]

\* what is observed of the generator's calls
\*   called       generate has been called on this generator
\*   succeeded    a generate call on this generator has returned
\*   seed         seed argument of the generate call in progress, or of the last one
\*   prev         self.data when that call started
\*   wasFresh     generate had not been called on this generator when that call started
\*   applied      the inject_pattern calls made by that call, in the order they were made
\*   repeat       that call returned, and a generate call with the same seed had
\*                returned before
\*   first        per seed, the matrix returned by the first generate call with that seed
\*   fresh        per seed, the matrix returned by a generate call with that seed on a
\*                generator on which generate had not been called before
NoHist ==
    [called |-> FALSE, succeeded |-> FALSE, seed |-> None, prev |-> None,
     wasFresh |-> FALSE, applied |-> << >>, repeat |-> FALSE,
     first |-> NoMemo, fresh |-> NoMemo]

\* configuration of the generator when only the injector is exercised
IdleConfig ==
    [num_transactions |-> 1, num_items |-> MaxItems, density |-> 1,
     avg_transaction_len |-> None, method |-> "random", params |-> DefaultParams,
     patterns |-> << >>]

-----------------------------------------------------------------------------
(* The standalone PatternInjector, used as the tests use it: an injector built for *)
(* a matrix of zeros, then inject_pattern and verify_pattern calls on that matrix  *)

InitInj ==
    /\ config = IdleConfig
    /\ data = None
    /\ pc = "idle"
    /\ probs = << >>
    /\ work = << >>
    /\ i = 0
    /\ k = 0
    /\ hist = NoHist
    /\ ret = NoCall
    /\ rng \in 0 .. (RngMod - 1)
    /\ injT \in 1 .. MaxTrans
    /\ injI = MaxItems
    /\ mat = Zeros(injT, injI)

\* data = injector.inject_pattern(data, items, target_support, noise_ratio)
Inject(items, tsN, nrN) ==
    LET res == InjectPattern(mat, injT, injI, items, tsN, nrN, rng)
    IN  /\ pc = "idle"
        /\ mat' = res.data
        /\ rng' = res.rng
        /\ ret' = [op |-> "inject",
                   status |-> IF res.raised THEN "ValueError" ELSE "ok",
                   items |-> items, tsN |-> tsN, nrN |-> nrN,
                   rows |-> res.rows,
                   preZero |-> (mat = Zeros(injT, injI))]
        /\ UNCHANGED <<genVars, injT, injI>>

\* verify_pattern with one slip: contains_pattern is a view of the first column of
\* the pattern instead of a fresh array, so that &= writes the result into the matrix
VerifyAliased(items) ==
    LET res  == VerifyPattern(mat, injI, items)
        full == {r \in DOMAIN mat :
                   \A j \in 1..Len(items) : mat[r][ColIndex(injI, items[j])] = 1}
    IN  /\ pc = "idle"
        /\ ret' = [op |-> "verify",
                   status |-> IF res.raised THEN "IndexError" ELSE "ok",
                   items |-> items, num |-> res.num, den |-> res.den]
        /\ mat' = IF items = << >> \/ res.raised THEN mat
                  ELSE [r \in DOMAIN mat |->
                          [mat[r] EXCEPT ![ColIndex(injI, items[1])] =
                              IF r \in full THEN 1 ELSE 0]]
        /\ UNCHANGED <<genVars, injT, injI, rng>>

\* PatternInjector.verify_pattern(data, items)
Verify(items) ==
    LET res == VerifyPattern(mat, injI, items)
    IN  /\ pc = "idle"
        /\ ret' = [op |-> "verify",
                   status |-> IF res.raised THEN "IndexError" ELSE "ok",
                   items |-> items, num |-> res.num, den |-> res.den]
        /\ UNCHANGED <<genVars, injVars, rng>>

NextInj ==
    \/ \E a \in InjectArgs : Inject(a[1], a[2], a[3])
    \/ \E items \in ItemLists : Verify(items)

SpecInj == InitInj /\ [][NextInj]_vars

-----------------------------------------------------------------------------
(* The computation of num_injections (injector.py lines 68-77) on its own, for     *)
(* valid target_support and noise_ratio written as decimal literals <<num, den>>   *)

\* target_support: 0.25, 0.5, 1.0 and the values 1 - 0.7 * noise_ratio that the
\* compensation lifts to 1
SupportLiterals ==
    { <<25, 100>>, <<50, 100>>, <<100, 100>>, <<72, 100>>, <<44, 100>>, <<37, 100>> }

\* noise_ratio: 0.0, 0.4, 0.8, 0.9
NoiseLiterals == { <<0, 10>>, <<4, 10>>, <<8, 10>>, <<9, 10>> }

\* num_injections for each of these arguments
NumInjectionsLiteralTable ==
    [T \in 1..MaxTrans, ts \in SupportLiterals, nr \in NoiseLiterals |->
        NumInjectionsOf(T, ToFloat(ts[1], ts[2]), ToFloat(nr[1], nr[2]))]

NumInjectionsCall(T, ts, nr) ==
    /\ pc = "idle"
    /\ ret' = [op |-> "num_injections", T |-> T, ts |-> ts, nr |-> nr,
               n |-> NumInjectionsLiteralTable[T, ts, nr]]
    /\ UNCHANGED <<genVars, injVars, rng>>

NextNum ==
    \E T \in 1..MaxTrans, ts \in SupportLiterals, nr \in NoiseLiterals :
        NumInjectionsCall(T, ts, nr)

SpecNum == InitInj /\ [][NextNum]_vars

-----------------------------------------------------------------------------
(* The DistributionEngine called on its own, as the tests call it *)

\* method names a caller passes: the four of the engine, and names it does not know
MethodNames == {"random", "zipf", "normal", "exponential", "bogus", "Zipf", "uniform", ""}

\* (method, params) pairs a caller passes: every name with the defaults, zipf with
\* other exponents (0, 2 and a negative one), normal and exponential with the narrow
\* densities
EngineCalls ==
    (MethodNames \X {DefaultParams})
    \cup ({"zipf"} \X {[DefaultParams EXCEPT !.alpha = a] : a \in {0 - 1, 0, 2}})
    \cup ({"normal", "exponential"} \X {NarrowParams})

\* DistributionEngine.generate_item_frequencies(num_items, method, params)
Frequencies(I, method, params) ==
    LET dist == GenerateItemFrequencies(I, method, params)
    IN  /\ pc = "idle"
        /\ ret' = [op |-> "frequencies",
                   status |-> IF dist.raised THEN "ValueError" ELSE "ok",
                   num_items |-> I, method |-> method, params |-> params,
                   w |-> dist.w,
                   p |-> IF dist.raised THEN << >> ELSE Normalised(dist.w)]
        /\ UNCHANGED <<genVars, injVars, rng>>

NextEng == \E I \in 1..MaxItems, call \in EngineCalls :
              Frequencies(I, call[1], call[2])

SpecEng == InitInj /\ [][NextEng]_vars

-----------------------------------------------------------------------------
(* DataGenerator (core.py) *)

\* the constructor with one slip: self.data = np.zeros((T, I))
InitialDataZeros(T, I) == Some(Zeros(T, I))

\* __init__: self.data = None
InitialData(T, I) == None

\* generate with one slip: the seed is never applied
ReseedNever(s, seed) == s

\* generate: if seed is not None: np.random.seed(seed)
Reseed(s, seed) == IF seed # None THEN SeedState(seed[1]) ELSE s

\* _generate_transactions with one slip: it starts from self.data when there is one
BaseMatrixAdditive(d, T, I) == IF d = None THEN Zeros(T, I) ELSE d[1]

\* _generate_transactions: data = np.zeros((T, I)); d is self.data at that point
BaseMatrix(d, T, I) == Zeros(T, I)

\* if self.avg_transaction_len: (None and 0 are both false)
Truthy(avg) == avg # None /\ avg[1] # 0

\* the clipping with one slip: min(trans_len, num_items), a length of 0 is kept
ClipNoFloor(n, I) == IF n > I THEN I ELSE n

\* max(1, min(trans_len, num_items))
Clip(n, I) == IF n > I THEN I ELSE IF n < 1 THEN 1 ELSE n

\* max(1, int(num_items * density))
DensityLen(I, dN) == IF (I * dN) \div DensDen < 1 THEN 1 ELSE (I * dN) \div DensDen

\* data[i, selected_items] = 1
SetRow(d, row, items) ==
    [d EXCEPT ![row] = [c \in DOMAIN d[row] |-> IF c \in items THEN 1 ELSE d[row][c]]]

\* the loop with one slip: for pattern in reversed(patterns)
PatternAtReversed(patterns, n) == patterns[Len(patterns) - n + 1]

\* for pattern in patterns: the pattern of the n-th iteration
PatternAt(patterns, n) == patterns[n]

\* one inject_pattern call of inject_multiple_patterns, as observed: the spec, whether
\* the call raised, the rows it selected, the matrix when it ended
CallEntry(p, res) ==
    [spec |-> p, raised |-> res.raised, rows |-> res.rows, data |-> res.data]

\* the loop with one slip: a spec that inject_pattern rejects is skipped
RECURSIVE InjectMultiplePatternsSkipInvalid(_, _, _, _, _, _, _)
InjectMultiplePatternsSkipInvalid(d, T, I, patterns, n, s, calls) ==
    IF n > Len(patterns)
    THEN [raised |-> FALSE, data |-> d, rng |-> s, calls |-> calls]
    ELSE LET p   == PatternAt(patterns, n)
             res == InjectPattern(d, T, I, p.items, p.target_support, p.noise_ratio, s)
         IN  InjectMultiplePatternsSkipInvalid(res.data, T, I, patterns, n + 1, res.rng,
                                               Append(calls, CallEntry(p, res)))

\* PatternInjector.inject_multiple_patterns from the n-th spec on: the loop of lines
\* 116-121 on the caller's matrix (inject_pattern writes in place and returns the
\* same array); an exception of inject_pattern leaves the loop
RECURSIVE InjectMultiplePatterns(_, _, _, _, _, _, _)
InjectMultiplePatterns(d, T, I, patterns, n, s, calls) ==
    IF n > Len(patterns)
    THEN [raised |-> FALSE, data |-> d, rng |-> s, calls |-> calls]
    ELSE LET p   == PatternAt(patterns, n)
             res == InjectPattern(d, T, I, p.items, p.target_support, p.noise_ratio, s)
             log == Append(calls, CallEntry(p, res))
         IN  IF res.raised
             THEN [raised |-> TRUE, data |-> d, rng |-> s, calls |-> log]
             ELSE InjectMultiplePatterns(res.data, T, I, patterns, n + 1, res.rng, log)

\* lists handed to inject_multiple_patterns: two noiseless patterns on disjoint items,
\* two patterns sharing item 1 (the second noisy), a list whose second spec has an
\* item past the last column, a list whose first spec has a target of 0
MultiLists ==
    { << Pat(<<0>>, 2, 0), Pat(<<1, 2>>, SuppDen, 0) >>,
      << Pat(<<0, 1>>, SuppDen, 0), Pat(<<1, 2>>, 2, 1) >>,
      << Pat(<<0, 1>>, 2, 0), Pat(<<2, MaxItems>>, 2, 0), Pat(<<2>>, SuppDen, 0) >>,
      << Pat(<<1>>, 0, 0), Pat(<<0, 1, 2>>, SuppDen, 0) >> }

\* data = injector.inject_multiple_patterns(data, patterns)
InjectMultiple(patterns) ==
    LET res == InjectMultiplePatterns(mat, injT, injI, patterns, 1, rng, << >>)
    IN  /\ pc = "idle"
        /\ mat' = res.data
        /\ rng' = res.rng
        /\ ret' = [op |-> "inject_multiple",
                   status |-> IF res.raised THEN "ValueError" ELSE "ok",
                   patterns |-> patterns, before |-> mat, calls |-> res.calls]
        /\ UNCHANGED <<genVars, injT, injI>>

NextMulti == \E patterns \in MultiLists : InjectMultiple(patterns)

\* the standalone PatternInjector (InitInj) under inject_multiple_patterns calls
SpecMulti == InitInj /\ [][NextMulti]_vars

\* if self.data is None
NotGenerated(d) == d = None

\* get_statistics with one slip: actual_support reports the pattern's target_support
PatternStatsTargetAsActual(d, I, patterns) ==
    [j \in 1..Len(patterns) |->
        LET v == VerifyPattern(d, I, patterns[j].items)
        IN  [items |-> patterns[j].items,
             target_support |-> patterns[j].target_support,
             raised |-> v.raised,
             actual_num |-> patterns[j].target_support, actual_den |-> SuppDen]]

\* get_statistics: num_patterns_injected and, per declared pattern, the target and the
\* measured support
PatternStats(d, I, patterns) ==
    [j \in 1..Len(patterns) |->
        LET v == VerifyPattern(d, I, patterns[j].items)
        IN  [items |-> patterns[j].items,
             target_support |-> patterns[j].target_support,
             raised |-> v.raised,
             actual_num |-> v.num, actual_den |-> v.den]]

\* np.where with one slip: transaction == 0
RECURSIVE WhereAbsent(_, _, _)
WhereAbsent(row, c, I) ==
    IF c >= I THEN << >>
    ELSE (IF row[c] = 0 THEN <<c>> ELSE << >>) \o WhereAbsent(row, c + 1, I)

\* to_spmf: per transaction, np.where(transaction == 1)[0] (ascending column indices)
RECURSIVE Where(_, _, _)
Where(row, c, I) ==
    IF c >= I THEN << >>
    ELSE (IF row[c] = 1 THEN <<c>> ELSE << >>) \o Where(row, c + 1, I)

SpmfLines(d, T, I) == [r \in 1..T |-> Where(d[r - 1], 0, I)]

\* Text: a string is a sequence of characters, a file the sequence of its lines, each
\* with its line end

\* str(n) of an index n >= 0: its decimal digits
DigitChar(n) == <<"0", "1", "2", "3", "4", "5", "6", "7", "8", "9">>[n + 1]

RECURSIVE Str(_)
Str(n) == IF n < 10 THEN <<DigitChar(n)>> ELSE Str(n \div 10) \o <<DigitChar(n % 10)>>

\* " ".join(words)
RECURSIVE Join(_)
Join(words) ==
    IF words = << >> THEN << >>
    ELSE IF Len(words) = 1 THEN words[1]
    ELSE words[1] \o <<" ">> \o Join(Tail(words))

\* to_spmf: f.write(" ".join(map(str, items)) + "\n") per transaction
SpmfFile(d, T, I) ==
    [r \in 1..T |->
        LET items == SpmfLines(d, T, I)[r]
        IN  Join([j \in 1..Len(items) |-> Str(items[j])]) \o <<"\n">>]

\* FileIO.read_spmf (utils/file_io.py)

\* characters str.strip() and str.split() treat as whitespace
IsSpace(ch) == ch \in {" ", "\t", "\n", "\r"}

\* line.strip()
RECURSIVE Strip(_)
Strip(line) ==
    IF line = << >> THEN << >>
    ELSE IF IsSpace(line[1]) THEN Strip(Tail(line))
    ELSE IF IsSpace(line[Len(line)]) THEN Strip(SubSeq(line, 1, Len(line) - 1))
    ELSE line

\* line.split(): the maximal runs of characters that are not whitespace, from position
\* j on, cur being the run in progress
RECURSIVE Split(_, _, _)
Split(line, j, cur) ==
    IF j > Len(line)
    THEN (IF cur = << >> THEN << >> ELSE <<cur>>)
    ELSE IF IsSpace(line[j])
    THEN (IF cur = << >> THEN << >> ELSE <<cur>>) \o Split(line, j + 1, << >>)
    ELSE Split(line, j + 1, Append(cur, line[j]))

\* int(x) of a string of decimal digits
RECURSIVE ParseInt(_)
ParseInt(x) ==
    LET last == CHOOSE n \in 0..9 : DigitChar(n) = x[Len(x)]
    IN  IF Len(x) = 1 THEN last
        ELSE 10 * ParseInt(SubSeq(x, 1, Len(x) - 1)) + last

\* read_spmf: for line in f: strip; skip the line if empty; else append
\* [int(x) for x in line.split()]
RECURSIVE ReadSpmf(_)
ReadSpmf(file) ==
    IF file = << >> THEN << >>
    ELSE LET line  == Strip(file[1])
             words == Split(line, 1, << >>)
         IN  (IF line = << >> THEN << >>
              ELSE << [j \in 1..Len(words) |-> ParseInt(words[j])] >>)
                \o ReadSpmf(Tail(file))

\* bookkeeping at the return of a generate call with result m
Returned(h, m) ==
    LET S == h.seed
    IN  [h EXCEPT
           !.succeeded = TRUE,
           !.repeat = (S # None /\ h.first[S[1]] # None),
           !.first = IF S # None /\ h.first[S[1]] = None
                     THEN [h.first EXCEPT ![S[1]] = Some(m)] ELSE h.first,
           !.fresh = IF S # None /\ h.wasFresh /\ h.fresh[S[1]] = None
                     THEN [h.fresh EXCEPT ![S[1]] = Some(m)] ELSE h.fresh]

GenCall(status) == [op |-> "generate", status |-> status]

Init ==
    /\ config \in Configs
    /\ data = InitialData(config.num_transactions, config.num_items)
    /\ pc = "idle"
    /\ probs = << >>
    /\ work = << >>
    /\ i = 0
    /\ k = 0
    /\ hist = NoHist
    /\ ret = NoCall
    /\ rng \in 0 .. (RngMod - 1)
    /\ injT = config.num_transactions
    /\ injI = config.num_items
    /\ mat = << >>

\* DataGenerator(config) again: a new generator with the same configuration
Construct ==
    /\ pc = "idle"
    /\ hist.called
    /\ data' = InitialData(config.num_transactions, config.num_items)
    /\ hist' = [hist EXCEPT !.called = FALSE, !.succeeded = FALSE, !.seed = None,
                            !.prev = None, !.wasFresh = FALSE,
                            !.applied = << >>, !.repeat = FALSE]
    /\ ret' = [op |-> "construct", status |-> "ok"]
    /\ UNCHANGED <<config, rng, pc, probs, work, i, k, injVars>>

\* generate(seed), lines 60-68: reseed, build the distribution, enter
\* _generate_transactions
GenerateStart(seed) ==
    LET dist == GenerateItemFrequencies(config.num_items, config.method, config.params)
        h    == [hist EXCEPT !.called = TRUE, !.seed = seed,
                             !.prev = data,
                             !.wasFresh = ~hist.called,
                             !.applied = << >>, !.repeat = FALSE]
    IN  /\ pc = "idle"
        /\ rng' = Reseed(rng, seed)
        /\ hist' = h
        /\ IF dist.raised
           THEN /\ ret' = GenCall("ValueError")
                /\ UNCHANGED <<pc, probs, work, i>>
           ELSE /\ ret' = GenCall("running")
                /\ pc' = "base"
                /\ probs' = dist.w
                /\ work' = BaseMatrix(data, config.num_transactions, config.num_items)
                /\ i' = 0
        /\ UNCHANGED <<config, data, k, injVars>>

\* one iteration of the loop of _generate_transactions (lines 94-112)
BaseRow ==
    LET po  == Poisson(rng)
        len == IF Truthy(config.avg_transaction_len)
               THEN Clip(po.val, config.num_items)
               ELSE DensityLen(config.num_items, config.density)
        s1  == IF Truthy(config.avg_transaction_len) THEN po.rng ELSE rng
        ch  == ChoiceWeighted(probs, len, s1)
    IN  /\ pc = "base"
        /\ i < config.num_transactions
        /\ rng' = ch.rng
        /\ IF ch.raised
           THEN /\ pc' = "idle"
                /\ ret' = GenCall("ValueError")
                /\ work' = << >>
                /\ probs' = << >>
                /\ UNCHANGED i
           ELSE /\ work' = SetRow(work, i, ch.val)
                /\ i' = i + 1
                /\ UNCHANGED <<pc, ret, probs>>
        /\ UNCHANGED <<config, data, k, hist, injVars>>

\* the return with one slip: the stream is reseeded again before the injector runs
BaseDoneReseeding ==
    /\ pc = "base"
    /\ i = config.num_transactions
    /\ data' = Some(work)
    /\ work' = << >>
    /\ probs' = << >>
    /\ rng' = Reseed(rng, hist.seed)
    /\ IF config.patterns = << >>
       THEN /\ pc' = "idle"
            /\ ret' = GenCall("ok")
            /\ hist' = Returned(hist, work)
            /\ UNCHANGED k
       ELSE /\ pc' = "inject"
            /\ k' = 1
            /\ UNCHANGED <<ret, hist>>
    /\ UNCHANGED <<config, i, injVars>>

\* return of _generate_transactions and line 71-74: self.data = ..., then either
\* return self.data or enter inject_multiple_patterns
BaseDone ==
    /\ pc = "base"
    /\ i = config.num_transactions
    /\ data' = Some(work)
    /\ work' = << >>
    /\ probs' = << >>
    /\ IF config.patterns = << >>
       THEN /\ pc' = "idle"
            /\ ret' = GenCall("ok")
            /\ hist' = Returned(hist, work)
            /\ UNCHANGED k
       ELSE /\ pc' = "inject"
            /\ k' = 1
            /\ UNCHANGED <<ret, hist>>
    /\ UNCHANGED <<config, rng, i, injVars>>

\* one iteration of the loop of inject_multiple_patterns (lines 116-121), on self.data
InjectStep ==
    LET p   == PatternAt(config.patterns, k)
        res == InjectPattern(data[1], injT, injI, p.items, p.target_support,
                             p.noise_ratio, rng)
        log == [spec |-> p, raised |-> res.raised, before |-> rng, after |-> res.rng]
    IN  /\ pc = "inject"
        /\ k <= Len(config.patterns)
        /\ hist' = [hist EXCEPT !.applied = Append(@, log)]
        /\ rng' = res.rng
        /\ IF res.raised
           THEN /\ pc' = "idle"
                /\ ret' = GenCall("ValueError")
                /\ UNCHANGED <<data, k>>
           ELSE /\ data' = Some(res.data)
                /\ k' = k + 1
                /\ UNCHANGED <<pc, ret>>
        /\ UNCHANGED <<config, probs, work, i, injVars>>

\* return of inject_multiple_patterns and of generate (lines 75-80)
InjectDone ==
    /\ pc = "inject"
    /\ k > Len(config.patterns)
    /\ pc' = "idle"
    /\ ret' = GenCall("ok")
    /\ hist' = Returned(hist, data[1])
    /\ UNCHANGED <<config, data, rng, probs, work, i, k, injVars>>

\* get_statistics()
GetStatistics ==
    /\ pc = "idle"
    /\ IF NotGenerated(data)
       THEN ret' = [op |-> "get_statistics", status |-> "RuntimeError"]
       ELSE LET ps == PatternStats(data[1], config.num_items, config.patterns)
            IN  ret' = [op |-> "get_statistics",
                        status |-> IF \E j \in 1..Len(ps) : ps[j].raised
                                   THEN "IndexError" ELSE "ok",
                        num_patterns_injected |-> Len(config.patterns),
                        injected_patterns |-> ps]
    /\ UNCHANGED <<genVars, injVars, rng>>

\* to_spmf(filepath)
ToSpmf ==
    /\ pc = "idle"
    /\ IF NotGenerated(data)
       THEN ret' = [op |-> "to_spmf", status |-> "RuntimeError"]
       ELSE ret' = [op |-> "to_spmf", status |-> "ok",
                    file |-> SpmfFile(data[1], config.num_transactions,
                                      config.num_items)]
    /\ UNCHANGED <<genVars, injVars, rng>>

\* FileIO.read_spmf(filepath) of the file to_spmf has just written
ReadBack ==
    /\ pc = "idle"
    /\ ret.op = "to_spmf"
    /\ ret.status = "ok"
    /\ ret' = [op |-> "read_spmf", status |-> "ok",
               transactions |-> ReadSpmf(ret.file)]
    /\ UNCHANGED <<genVars, injVars, rng>>

\* to_csv(filepath)
ToCsv ==
    /\ pc = "idle"
    /\ IF NotGenerated(data)
       THEN ret' = [op |-> "to_csv", status |-> "RuntimeError"]
       ELSE ret' = [op |-> "to_csv", status |-> "ok", table |-> data[1]]
    /\ UNCHANGED <<genVars, injVars, rng>>

Next ==
    \/ Construct
    \/ \E seed \in {None} \cup {Some(S) : S \in Seeds} : GenerateStart(seed)
    \/ BaseRow
    \/ BaseDone
    \/ InjectStep
    \/ InjectDone
    \/ GetStatistics
    \/ ToSpmf
    \/ ReadBack
    \/ ToCsv

Spec == Init /\ [][Next]_vars

-----------------------------------------------------------------------------
(* Properties *)

CellsOf(m) == {m[r][c] : r \in DOMAIN m, c \in Cols(config.num_items)}

StatOps == {"get_statistics", "to_spmf", "to_csv"}

GenerateReturned == pc = "idle" /\ ret = GenCall("ok")

\* C1: in every state reached by any sequence of generate calls, every cell of the
\* stored dataset (and of the matrix under construction) is 0 or 1.
C1_CellsBinary ==
    /\ data # None => CellsOf(data[1]) \subseteq {0, 1}
    /\ work # << >> => CellsOf(work) \subseteq {0, 1}

\* a generate call with a noisy pattern returned a dataset holding both values
C1_Witness ==
    /\ GenerateReturned
    /\ Len(hist.applied) = 2
    /\ CellsOf(data[1]) = {0, 1}

\* C2: a generate(seed=S) call that returns, returns the matrix the first
\* generate(seed=S) call returned (same configuration; the same generator or another
\* one; whatever state the random stream was in when the call was made).
C2_SameSeedSameMatrix ==
    (GenerateReturned /\ hist.seed # None)
        => data = hist.first[hist.seed[1]]

\* a seeded call returned for the second time, on a generator holding a dataset that
\* differed from the one returned, with patterns injected
C2_Witness ==
    /\ GenerateReturned
    /\ hist.repeat
    /\ hist.prev # None
    /\ hist.prev # data
    /\ Len(hist.applied) >= 1

\* C3: on a generator on which generate has never been called, get_statistics,
\* to_spmf and to_csv fail with RuntimeError and no dataset is stored.
C3_IllegalStateBeforeGenerate ==
    ~hist.called =>
        /\ data = None
        /\ ret.op \in StatOps => ret.status = "RuntimeError"

C3_Witness ==
    /\ ~hist.called
    /\ ret.op = "get_statistics"
    /\ ret.status = "RuntimeError"
    /\ data = None

\* C4 (the claim as stated): between calls, as long as no generate call has returned
\* (each one raised), no dataset is stored, and get_statistics, to_spmf and to_csv
\* fail with RuntimeError.
C4_GeneratedOnlyBySuccess ==
    (pc = "idle" /\ ~hist.succeeded) =>
        /\ data = None
        /\ ret.op \in StatOps => ret.status = "RuntimeError"

\* C5: a generate(seed=S) call on a generator that already holds a dataset returns
\* what generate(seed=S) returned on a generator on which generate had not been
\* called: nothing of the previous dataset is carried over.
C5_GenerateReplaces ==
    (GenerateReturned /\ hist.seed # None /\ hist.prev # None
        /\ hist.fresh[hist.seed[1]] # None)
        => data = hist.fresh[hist.seed[1]]

\* such a call returned, and the dataset it replaced had a cell set that the new one
\* has not
C5_Witness ==
    /\ GenerateReturned
    /\ hist.seed # None
    /\ hist.prev # None
    /\ hist.fresh[hist.seed[1]] # None
    /\ \E r \in Rows(config.num_transactions), c \in Cols(config.num_items) :
          hist.prev[1][r][c] = 1 /\ data[1][r][c] = 0

\* the arguments of a call are outside the documented ranges
ArgsInvalid(I, items, tsN, nrN) ==
    \/ Len(items) = 0
    \/ \E j \in 1..Len(items) : items[j] \notin 0 .. (I - 1)
    \/ tsN <= 0
    \/ tsN > SuppDen
    \/ nrN < 0
    \/ nrN >= NoiseDen

\* C6: inject raises ValueError exactly when items is empty, or an item is outside
\* [0, num_items), or target_support is not in (0, 1], or noise_ratio is not in
\* [0, 1); and then no cell of the dataset is changed.
C6_InjectValidation ==
    [][ret'.op = "inject" =>
          /\ (ret'.status = "ValueError")
                <=> ArgsInvalid(injI, ret'.items, ret'.tsN, ret'.nrN)
          /\ ret'.status = "ValueError" => mat' = mat]_vars

\* a call was rejected on a matrix that earlier calls had written to
C6_Witness ==
    /\ ret.op = "inject"
    /\ ret.status = "ValueError"
    /\ mat # Zeros(injT, injI)

\* rows of the matrix in which every item of items is 1
FullRows(m, items) ==
    {r \in DOMAIN m : \A j \in 1..Len(items) : m[r][items[j]] = 1}

\* a call with noise_ratio 0 that returned, on zeros
NoiselessOnZeros ==
    /\ ret.op = "inject"
    /\ ret.status = "ok"
    /\ ret.preZero
    /\ ret.nrN = 0

\* C7 (the claim as stated): on an all-zero matrix with T rows, inject with
\* noise_ratio = 0 leaves exactly floor(T * target_support) rows with every pattern
\* item set and no other cell set, so that verify = floor(T * target_support) / T.
C7_NoiselessExact ==
    NoiselessOnZeros =>
        LET n == (injT * ret.tsN) \div SuppDen
            v == VerifyPattern(mat, injI, ret.items)
        IN  /\ Cardinality(FullRows(mat, ret.items)) = n
            /\ \A r \in Rows(injT), c \in Cols(injI) :
                  mat[r][c] = 1 =>
                     /\ r \in FullRows(mat, ret.items)
                     /\ \E j \in 1..Len(ret.items) : ret.items[j] = c
            /\ v.num * injT = n * v.den

\* a call with three items, noise_ratio 0.2 and a target below 1.0, on zeros
NoisyOnZeros ==
    /\ ret.op = "inject"
    /\ ret.status = "ok"
    /\ ret.preZero
    /\ ret.nrN * 5 = NoiseDen
    /\ ret.tsN < SuppDen
    /\ Len(ret.items) = 3

ZeroTargeted(T, tsN, nrN) ==
    IF nrN > 0
    THEN T * tsN * 10 * NoiseDen < SuppDen * (10 * NoiseDen - 7 * nrN)
    ELSE T * tsN < SuppDen

\* C9: when the computed number of targeted transactions is 0, inject returns with
\* every cell of the matrix unchanged.
C9_ZeroInjectionNoOp ==
    [][(ret'.op = "inject" /\ ret'.status = "ok"
          /\ ZeroTargeted(injT, ret'.tsN, ret'.nrN)) => mat' = mat]_vars

\* such a call returned on a matrix with more than one row that holds injected cells
C9_Witness ==
    /\ ret.op = "inject"
    /\ ret.status = "ok"
    /\ ZeroTargeted(injT, ret.tsN, ret.nrN)
    /\ injT > 1
    /\ mat # Zeros(injT, injI)

\* C10: inject_multiple applies inject once per pattern spec in the order of the
\* list: the j-th inject call is for the j-th spec, it starts in the stream state
\* the (j-1)-th left and only if that one returned, and a generate call that
\* returns has made one call per spec.
C10_InjectInListOrder ==
    LET a == hist.applied
    IN  /\ Len(a) <= Len(config.patterns)
        /\ \A j \in 1..Len(a) :
              /\ a[j].spec = config.patterns[j]
              /\ j > 1 => (~a[j - 1].raised /\ a[j].before = a[j - 1].after)
        /\ pc = "inject" => Len(a) = k - 1
        /\ GenerateReturned => Len(a) = Len(config.patterns)

\* both specs of a two-pattern list were applied, the first having consumed draws
C10_Witness ==
    /\ GenerateReturned
    /\ Len(hist.applied) = 2
    /\ hist.applied[1].before # hist.applied[1].after
    /\ hist.applied[1].spec # hist.applied[2].spec

\* an inject_multiple call has ended
MultiEnded == ret.op = "inject_multiple"

\* positions of the specs of a list that are outside the documented ranges
InvalidAt(patterns) ==
    {j \in 1..Len(patterns) :
        ArgsInvalid(injI, patterns[j].items, patterns[j].target_support,
                    patterns[j].noise_ratio)}

\* the matrix when the j-th inject call of the ended inject_multiple call started
BeforeCall(j) == IF j = 1 THEN ret.before ELSE ret.calls[j - 1].data

\* C11: inject_multiple is fail-fast without rollback: it raises ValueError exactly
\* when some spec of the list is invalid; with k the first invalid spec, specs 1..k-1
\* were applied and their effects are in the matrix the caller holds, spec k changed
\* nothing, and no spec after k was applied.
C11_FailFastNoRollback ==
    MultiEnded =>
        LET bad == InvalidAt(ret.patterns)
        IN  /\ (ret.status = "ValueError") <=> (bad # {})
            /\ bad # {} =>
                  LET first == CHOOSE j \in bad : \A j2 \in bad : j <= j2
                  IN  /\ Len(ret.calls) = first
                      /\ \A j \in 1..(first - 1) : ~ret.calls[j].raised
                      /\ ret.calls[first].raised
                      /\ ret.calls[first].data = BeforeCall(first)
                      /\ mat = BeforeCall(first)

\* a call raised at its second spec, a third spec following, after the first spec had
\* set cells of the matrix
C11_Witness ==
    /\ MultiEnded
    /\ ret.status = "ValueError"
    /\ Len(ret.patterns) = 3
    /\ Len(ret.calls) = 2
    /\ mat # ret.before

\* an inject_multiple call that returned, on zeros, for two noiseless patterns on
\* disjoint item sets
DisjointNoiselessOnZeros ==
    /\ MultiEnded
    /\ ret.status = "ok"
    /\ ret.before = Zeros(injT, injI)
    /\ Len(ret.patterns) = 2
    /\ \A j \in 1..2 : ret.patterns[j].noise_ratio = 0
    /\ \A a \in 1..Len(ret.patterns[1].items), b \in 1..Len(ret.patterns[2].items) :
          ret.patterns[1].items[a] # ret.patterns[2].items[b]

\* C12 (the claim as stated): after injecting two patterns with disjoint item sets and
\* noise_ratio = 0 into an all-zero matrix, the verify value of each pattern equals
\* its own floor(T * target_support) / T.
C12_DisjointIndependent ==
    DisjointNoiselessOnZeros =>
        \A j \in 1..2 :
            LET v == VerifyPattern(mat, injI, ret.patterns[j].items)
                n == (injT * ret.patterns[j].target_support) \div SuppDen
            IN  v.num * injT = n * v.den

\* cell (r, c) was turned from 0 to 1 by the a-th inject call
WrittenBy(a, r, c) == BeforeCall(a)[r][c] = 0 /\ ret.calls[a].data[r][c] = 1

\* cell (r, c) is in a row the b-th inject call selected and in a column of its items
TargetedBy(b, r, c) ==
    /\ \E x \in 1..Len(ret.calls[b].rows) : ret.calls[b].rows[x] = r
    /\ \E y \in 1..Len(ret.calls[b].spec.items) : ret.calls[b].spec.items[y] = c

\* inject calls a < b and a cell the a-th wrote and the b-th targeted
Overlaps ==
    {q \in (1..Len(ret.calls)) \X (1..Len(ret.calls)) \X Rows(injT) \X Cols(injI) :
        /\ q[1] < q[2]
        /\ ~ret.calls[q[2]].raised
        /\ WrittenBy(q[1], q[3], q[4])
        /\ TargetedBy(q[2], q[3], q[4])}

\* C13 (the claim as stated): when a later pattern of the list targets cells an
\* earlier pattern wrote, the overwrite is observable: one of these cells holds a
\* different value after the later pattern has been applied.
C13_OverwriteObservable ==
    (MultiEnded /\ Overlaps # {}) =>
        \E q \in Overlaps : ret.calls[q[2]].data[q[3]][q[4]] # ret.calls[q[1]].data[q[3]][q[4]]

\* C13 (amended): injection is sequential and every write stores 1: a cell that holds
\* 1 when an inject call of the list ends holds 1 after every later call of the list
\* and in the matrix the caller holds, so no overwrite changes a cell an earlier
\* pattern set.
C13_EarlierCellsKept ==
    MultiEnded =>
        \A a \in 1..Len(ret.calls) : \A r \in Rows(injT), c \in Cols(injI) :
            ret.calls[a].data[r][c] = 1 =>
                /\ mat[r][c] = 1
                /\ \A b \in a..Len(ret.calls) : ret.calls[b].data[r][c] = 1

\* a later pattern targeted a cell an earlier pattern of the same list had written
C13_Witness ==
    /\ MultiEnded
    /\ Overlaps # {}

\* every item of the list is an item of the dataset (a column index in [0, I))
ItemsOfDataset(I, items) == \A j \in 1..Len(items) : items[j] \in Cols(I)

\* C14: verify(dataset, items) returns the number of rows in which every item of
\* items equals 1, divided by the number of rows, for every non-empty list of items
\* of the dataset, and 0.0 for the empty list on any dataset.
C14_VerifyFormula ==
    (ret.op = "verify" /\ ItemsOfDataset(injI, ret.items)) =>
        /\ ret.status = "ok"
        /\ IF ret.items = << >>
           THEN ret.num = 0 /\ ret.den > 0
           ELSE /\ ret.num = Cardinality(FullRows(mat, ret.items))
                /\ ret.den = injT

\* verify of a three-item pattern on a matrix in which some rows hold it, some hold
\* part of it only
C14_Witness ==
    /\ ret.op = "verify"
    /\ Len(ret.items) = 3
    /\ ret.num = 1
    /\ ret.den = 2
    /\ \E r \in Rows(injT), c \in Cols(injI) : r \notin FullRows(mat, ret.items) /\ mat[r][c] = 1

\* C15: verify is pure: a verify call changes no cell of the dataset and consumes no
\* random draw, and a verify call that follows a verify call with the same items
\* returns the same value.
C15_VerifyPure ==
    [][ret'.op = "verify" =>
          /\ mat' = mat
          /\ rng' = rng
          /\ (ret.op = "verify" /\ ret.items = ret'.items) => ret' = ret]_vars

\* a verify call returned a non-zero support, on a matrix that injections had written,
\* with the random stream in a state from which a draw would change it
C15_Witness ==
    /\ ret.op = "verify"
    /\ ret.status = "ok"
    /\ ret.items = <<1>>
    /\ ret.num > 0
    /\ rng > 0

\* get_statistics was called on a generator whose generate has returned, configured
\* with a non-empty pattern list
StatsAfterGenerate ==
    /\ ret.op = "get_statistics"
    /\ hist.succeeded
    /\ config.patterns # << >>

\* C16: after a successful generate with a non-empty pattern list, get_statistics
\* returns one entry per declared pattern, in declared order, each with the pattern's
\* items and target_support and with actual_support = (rows of the stored dataset
\* holding every item of the pattern) / num_transactions, that is verify(stored
\* dataset, items); num_patterns_injected is the number of declared patterns.
C16_StatsPerPattern ==
    StatsAfterGenerate =>
        /\ ret.status = "ok"
        /\ ret.num_patterns_injected = Len(config.patterns)
        /\ Len(ret.injected_patterns) = Len(config.patterns)
        /\ \A j \in 1..Len(config.patterns) :
              LET e == ret.injected_patterns[j]
                  p == config.patterns[j]
              IN  /\ e.items = p.items
                  /\ e.target_support = p.target_support
                  /\ e.actual_num = Cardinality(FullRows(data[1], p.items))
                  /\ e.actual_den = config.num_transactions

\* statistics of a dataset with two declared patterns, the measured support of the
\* first below its target and that of the second at its target
C16_Witness ==
    /\ StatsAfterGenerate
    /\ ret.status = "ok"
    /\ Len(ret.injected_patterns) = 2
    /\ ret.injected_patterns[1].actual_num * SuppDen
          < ret.injected_patterns[1].target_support * ret.injected_patterns[1].actual_den
    /\ ret.injected_patterns[2].actual_num * SuppDen
          = ret.injected_patterns[2].target_support * ret.injected_patterns[2].actual_den
    /\ ret.injected_patterns[1].target_support # ret.injected_patterns[2].target_support

\* the items a line of text lists: its whitespace-separated words read as integers
LineItems(line) ==
    LET words == Split(line, 1, << >>)
    IN  [j \in 1..Len(words) |-> ParseInt(words[j])]

StrictlyAscending(seq) == \A a, b \in 1..Len(seq) : a < b => seq[a] < seq[b]

Elems(seq) == {seq[j] : j \in 1..Len(seq)}

\* the items present in a row of the dataset
Present(row) == {c \in DOMAIN row : row[c] = 1}

\* C17: to_spmf writes exactly num_transactions lines, line i listing in strictly
\* ascending order exactly the item indices whose cell in row i is 1 (an empty line
\* for a row with no item).
C17_SpmfLines ==
    (ret.op = "to_spmf" /\ ret.status = "ok") =>
        /\ Len(ret.file) = config.num_transactions
        /\ \A r \in 1..Len(ret.file) :
              LET line == ret.file[r]
              IN  /\ line # << >>
                  /\ \A j \in 1..Len(line) : (line[j] = "\n") <=> (j = Len(line))
                  /\ StrictlyAscending(LineItems(line))
                  /\ Elems(LineItems(line)) = Present(data[1][r - 1])
                  /\ Present(data[1][r - 1]) = {} => line = <<"\n">>

\* a file of two different lines was written, one of them listing several items
C17_Witness ==
    /\ ret.op = "to_spmf"
    /\ ret.status = "ok"
    /\ Len(ret.file) = 2
    /\ ret.file[1] # ret.file[2]
    /\ Len(LineItems(ret.file[2])) >= 2
    /\ Len(hist.applied) >= 1

\* C18: writing a generated dataset with to_spmf and reading the file back with
\* FileIO.read_spmf yields exactly num_transactions transactions, the i-th being the
\* ascending list of the items present in row i.
C18_SpmfRoundTrip ==
    ret.op = "read_spmf" =>
        /\ Len(ret.transactions) = config.num_transactions
        /\ \A r \in 1..Len(ret.transactions) :
              /\ StrictlyAscending(ret.transactions[r])
              /\ Elems(ret.transactions[r]) = Present(data[1][r - 1])

\* the file of a dataset without injected pattern, drawn with Poisson lengths, was
\* read back: two transactions, one of a single item
C18_Witness ==
    /\ ret.op = "read_spmf"
    /\ Len(ret.transactions) = 2
    /\ Len(ret.transactions[1]) = 1
    /\ Len(ret.transactions[2]) > 1
    /\ config.patterns = << >>
    /\ Truthy(config.avg_transaction_len)

\* the entries of a distribution vector that are not zero
NonZero(w) == {c \in DOMAIN w : w[c] > 0}

\* the length of the transaction _generate_transactions draws next
NextLength ==
    IF Truthy(config.avg_transaction_len)
    THEN Clip(Poisson(rng).val, config.num_items)
    ELSE DensityLen(config.num_items, config.density)

\* C19 (the claim as stated): when the distribution vector has fewer non-zero entries
\* than the length of the transaction to draw, base sampling does not raise: the step
\* of generate that draws the transaction ends without an exception.
C19_PathologicalGraceful ==
    [][(pc = "base" /\ i < config.num_transactions
          /\ Cardinality(NonZero(probs)) < NextLength)
        => ret' # GenCall("ValueError")]_vars

KnownMethods == {"random", "zipf", "normal", "exponential"}

EngineReturned == ret.op = "frequencies" /\ ret.status = "ok"

\* C21 (the claim as stated): for every num_items >= 1, every method of the engine and
\* every params, the vector returned has num_items entries, each of them a number
\* >= 0, and the entries sum to 1.
C21_DistributionSumsToOne ==
    EngineReturned =>
        /\ DOMAIN ret.p = Cols(ret.num_items)
        /\ \A c \in DOMAIN ret.p : ret.p[c] # NaN /\ ret.p[c].num >= 0 /\ ret.p[c].den > 0
        /\ \A c \in DOMAIN ret.p :
              SumTo([c2 \in DOMAIN ret.p |-> ret.p[c2].num], ret.num_items) = ret.p[c].den

RECURSIVE SampleAt(_, _)
SampleAt(s, n) ==
    IF n = 1 THEN RandomSample(s).val ELSE SampleAt(RandomSample(s).rng, n - 1)

\* the rows an inject_pattern call started at stream state s selects and in which it
\* keeps every item: the x-th selected row uses the draws (x-1)*len(items) + 1 ..
\* x*len(items) that follow the row selection
KeptRows(T, items, tsN, nrN, s) ==
    LET n  == NumInjections(T, tsN, nrN)
        ch == ChoiceUniform(T, n, s)
    IN  {ch.val[x] : x \in {y \in 1..n :
            \A j \in 1..Len(items) :
                Keep(SampleAt(ch.rng, (y - 1) * Len(items) + j), nrN)}}

\* get_statistics was called after a generate call that made every declared
\* inject_pattern call and returned
StatsAfterSuccess ==
    /\ StatsAfterGenerate
    /\ ret.status = "ok"
    /\ Len(hist.applied) = Len(config.patterns)
    /\ \A j \in 1..Len(hist.applied) : ~hist.applied[j].raised

\* C23 (the claim as stated): after a successful generate, the actual_support reported
\* for every declared pattern with noise_ratio <= 0.1 is at least 70% of its
\* target_support, whatever the random draws.
C23_AtLeast70Percent ==
    StatsAfterSuccess =>
        \A j \in 1..Len(config.patterns) :
            LET e == ret.injected_patterns[j]
                p == config.patterns[j]
            IN  p.noise_ratio * 10 <= NoiseDen =>
                    e.actual_num * SuppDen * 10 >= 7 * p.target_support * e.actual_den

\* C23 (amended): after a successful generate, the actual_support reported for every
\* declared pattern is at least kept / num_transactions, where kept is the number of
\* rows its inject_pattern call selected and in which every item's draw exceeded
\* noise_ratio.
C23_AtLeastKeptRows ==
    StatsAfterSuccess =>
        \A j \in 1..Len(config.patterns) :
            LET e == ret.injected_patterns[j]
                p == config.patterns[j]
            IN  /\ e.actual_den = config.num_transactions
                /\ e.actual_num >=
                       Cardinality(KeptRows(config.num_transactions, p.items,
                                            p.target_support, p.noise_ratio,
                                            hist.applied[j].before))

\* statistics after a generate whose noisy first pattern kept every item in one of
\* the two rows it selected, the reported support staying below the target
C23_Witness ==
    /\ StatsAfterSuccess
    /\ config.patterns[1].noise_ratio > 0
    /\ Cardinality(KeptRows(config.num_transactions, config.patterns[1].items,
                            config.patterns[1].target_support,
                            config.patterns[1].noise_ratio,
                            hist.applied[1].before)) = 1
    /\ ret.injected_patterns[1].actual_num = 1
    /\ config.num_transactions = 2

\* floor(T * min(ts / (1 - 0.7 * nr), 1)) for ts and nr given as <<num, den>>, in
\* exact arithmetic; floor(T * ts) when nr = 0
ExactRows(T, ts, nr) ==
    LET num == ts[1] * 10 * nr[2]
        den == ts[2] * (10 * nr[2] - 7 * nr[1])
    IN  IF nr[1] = 0 THEN (T * ts[1]) \div ts[2]
        ELSE IF num >= den THEN T
        ELSE (T * num) \div den

\* C24 (the claim as stated): for valid arguments the number n of rows inject selects
\* is floor(T * target_support) when noise_ratio = 0 and
\* floor(T * min(target_support / (1 - 0.7 * noise_ratio), 1)) when noise_ratio > 0,
\* and 0 <= n <= T.
C24_SelectsFloorRows ==
    ret.op = "num_injections" =>
        /\ ret.n = ExactRows(ret.T, ret.ts, ret.nr)
        /\ 0 <= ret.n
        /\ ret.n <= ret.T

\* the rows an inject call selects are num_injections pairwise distinct rows of the
\* matrix: the row selection does not fail
SelectedRowsDistinct ==
    (ret.op = "inject" /\ ret.status = "ok") =>
        /\ Len(ret.rows) = NumInjections(injT, ret.tsN, ret.nrN)
        /\ Len(ret.rows) <= injT
        /\ \A a \in 1..Len(ret.rows) : ret.rows[a] \in Rows(injT)
        /\ \A a, b \in 1..Len(ret.rows) : a # b => ret.rows[a] # ret.rows[b]

\* C25: the step of base sampling that fills row i marks exactly L columns of it,
\* where L is the length determined for the transaction and 1 <= L <= num_items (the
\* items drawn are pairwise distinct), and leaves every other row as it was; the
\* matrix handed to injection is the matrix base sampling built.
C25_BaseRowHoldsLength ==
    [][/\ (pc = "base" /\ i' = i + 1) =>
            /\ 1 <= NextLength
            /\ NextLength <= config.num_items
            /\ Present(work[i]) = {}
            /\ Cardinality(Present(work'[i])) = NextLength
            /\ \A r \in Rows(config.num_transactions) : r # i => work'[r] = work[r]
       /\ (pc = "base" /\ pc' = "inject") => data' = Some(work)]_vars

\* base sampling has filled two rows, the first with three items and the second with
\* one, and injection is about to start
C25_Witness ==
    /\ pc = "inject"
    /\ k = 1
    /\ config.num_transactions = 2
    /\ Cardinality(Present(data[1][0])) = 3
    /\ Cardinality(Present(data[1][1])) = 1

\* np.random.poisson(lam) for lam >= 0: lam = 0 returns 0
PoissonAround(lam, s) == IF lam = 0 THEN 0 ELSE Poisson(s).val

\* C26 (the claim as stated): whenever an avg_transaction_len is configured, 0
\* included, the length of each transaction is a Poisson draw centered on it clipped to
\* [1, num_items]; only when none is configured is it max(1, floor(num_items *
\* density)), with no draw for the length.
C26_LengthMode ==
    [][(pc = "base" /\ i' = i + 1) =>
          LET avg == config.avg_transaction_len
              len == Cardinality(Present(work'[i]))
              d   == (config.num_items * config.density) \div DensDen
          IN  IF avg # None
              THEN len = Clip(PoissonAround(avg[1], rng), config.num_items)
              ELSE /\ len = IF d < 1 THEN 1 ELSE d
                   /\ rng' = ChoiceWeighted(probs, len, rng).rng]_vars

\* stream state t is reached from s by draws alone
Consumed(s, t) == \E c \in 1..RngMod : t = s \div c

\* C27: within one generate call the stream is reseeded only at the start, and only
\* when a seed is given; building the distribution consumes no draw; the base draws
\* follow, row 0 first and in row order, before any inject_pattern call; the
\* inject_pattern calls follow in list order, each starting from the stream state the
\* previous step left; the steps between them leave the stream alone.
C27_DrawOrder ==
    [][/\ (pc = "idle" /\ pc' = "base") =>
            /\ rng' = IF hist'.seed # None THEN SeedState(hist'.seed[1]) ELSE rng
            /\ i' = 0
            /\ hist'.applied = << >>
       /\ (pc = "base" /\ i < config.num_transactions) =>
            /\ Consumed(rng, rng')
            /\ hist'.applied = << >>
            /\ pc' = "base" => i' = i + 1
       /\ (pc = "base" /\ pc' = "inject") =>
            /\ i = config.num_transactions
            /\ rng' = rng
            /\ hist'.applied = << >>
       /\ pc = "inject" => pc' # "base"
       /\ (pc = "inject" /\ hist'.applied # hist.applied) =>
            LET n == Len(hist.applied) + 1
            IN  /\ Len(hist'.applied) = n
                /\ SubSeq(hist'.applied, 1, n - 1) = hist.applied
                /\ hist'.applied[n].spec = config.patterns[n]
                /\ hist'.applied[n].before = rng
                /\ hist'.applied[n].after = rng'
                /\ Consumed(rng, rng')
       /\ (pc = "inject" /\ hist'.applied = hist.applied) => rng' = rng]_vars

\* a seeded generate call on two rows has made its first inject_pattern call, which
\* consumed draws, from the stream state the base draws left, itself different from
\* the seeded state
C27_Witness ==
    /\ pc = "inject"
    /\ k = 2
    /\ hist.seed # None
    /\ config.num_transactions = 2
    /\ Len(hist.applied) = 1
    /\ hist.applied[1].before # hist.applied[1].after
    /\ hist.applied[1].before # SeedState(hist.seed[1])

\* an inject_pattern call with noise_ratio > 0 has just returned
NoisyInject == ret.op = "inject" /\ ret.status = "ok" /\ ret.nrN > 0

\* C28: in a noisy inject every (selected row, item) pair has its own draw, the
\* ((x-1) * len(items) + j)-th after the row selection for the j-th item of the x-th
\* selected row: the cell is 1 afterwards if that draw exceeds noise_ratio and keeps
\* its previous value otherwise.
C28_KeepPerCell ==
    [][NoisyInject' =>
          LET items == ret'.items
              rows  == ret'.rows
              s0    == ChoiceUniform(injT, Len(rows), rng).rng
          IN  \A x \in 1..Len(rows), j \in 1..Len(items) :
                  mat'[rows[x]][items[j]] =
                      IF Keep(SampleAt(s0, (x - 1) * Len(items) + j), ret'.nrN)
                      THEN 1
                      ELSE mat[rows[x]][items[j]]]_vars

\* a noisy inject of three items on zeros has left a selected row with some but not
\* all of the items
C28_Witness ==
    /\ NoisyInject
    /\ ret.preZero
    /\ Len(ret.items) = 3
    /\ \E x \in 1..Len(ret.rows) :
          /\ \E j \in 1..3 : mat[ret.rows[x]][ret.items[j]] = 1
          /\ \E j \in 1..3 : mat[ret.rows[x]][ret.items[j]] = 0

\* the rows of m that hold every column of S
RowsHolding(m, S) == {r \in DOMAIN m : \A c \in S : m[r][c] = 1}

\* C29: an inject call changes a cell only at a selected row and a column listed in
\* items, and only from 0 to 1; hence, for every non-empty set of columns, the rows
\* holding all of them after any step are at least those holding them before.
C29_InjectFrame ==
    [][/\ ret'.op = "inject" =>
            \A r \in Rows(injT), c \in Cols(injI) :
                mat'[r][c] # mat[r][c] =>
                    /\ mat[r][c] = 0
                    /\ mat'[r][c] = 1
                    /\ r \in Elems(ret'.rows)
                    /\ c \in Elems(ret'.items)
       /\ \A S \in SUBSET Cols(injI) :
            S # {} => RowsHolding(mat, S) \subseteq RowsHolding(mat', S)]_vars

\* an inject of item 1 has selected one row of two and set the item in it, next to a
\* column it does not list and that is still 0, while the other row holds all three
\* items from an earlier inject
C29_Witness ==
    /\ ret.op = "inject"
    /\ ret.status = "ok"
    /\ ~ret.preZero
    /\ ret.items = <<1>>
    /\ injT = 2
    /\ Len(ret.rows) = 1
    /\ mat[ret.rows[1]] = [c \in Cols(injI) |-> IF c = 1 THEN 1 ELSE 0]
    /\ \E r \in Rows(injT) : r # ret.rows[1] /\ \A c \in Cols(injI) : mat[r][c] = 1

\* C30: an inject call that fails validation, or whose computed number of targeted
\* transactions is 0, leaves the random stream (and the matrix) as it found them.
C30_NoDrawWhenNothingInjected ==
    [][(/\ ret'.op = "inject"
        /\ \/ ret'.status = "ValueError"
           \/ ret'.status = "ok" /\ ret'.rows = << >>)
          => rng' = rng /\ mat' = mat]_vars

\* a noisy inject whose num_injections is 0 returned on an injector for two rows, the
\* stream holding draws that a row selection would have consumed
C30_Witness ==
    /\ ret.op = "inject"
    /\ ret.status = "ok"
    /\ ret.rows = << >>
    /\ ret.nrN > 0
    /\ ZeroTargeted(injT, ret.tsN, ret.nrN)
    /\ injT = 2
    /\ rng % 2 = 1

====
